---- MODULE Spec2Model ----
(***************************************************************************)
(* Model of the statement-extraction pipeline of pentatomato:              *)
(*   - the CreditCardParser component (src/components/CreditCardParser.tsx)*)
(*     with its React state and its asynchronous parsePDF runs;            *)
(*   - the instruction text-generation API handler (src/next.config.ts).   *)
(*                                                                         *)
(* Texts are sequences of lexical items.  A model response is a sequence   *)
(* over Tokens; a member token such as "issuer:Chase" stands for one       *)
(* object member together with the separator it needs, " " is a run of     *)
(* JSON whitespace, "w" is a word of prose, "NotFound" is the bare text    *)
(* Not Found.  An error message is a sequence of words.                    *)
(***************************************************************************)
EXTENDS Integers, Sequences, FiniteSets, TLC

VARIABLES
    file,           \* useState<File | null>            (line 26)
    parsing,        \* useState(false)                  (line 27)
    result,         \* useState<ParsedData | null>      (line 28)
    error,          \* useState<string>('')             (line 29)
    password,       \* useState<string>('')             (line 31)
    needsPassword,  \* useState(false)                  (line 32)
    pendingFile,    \* useState<File | null>            (line 33)
    runs,           \* parsePDF invocations suspended at an await
    rejections,     \* history: retries rejected in a row (saturating)
    ignored,        \* history: a password submission started nothing
    openaiKey,      \* process.env.NEXT_PUBLIC_OPENAI_API_KEY is set
    hfKey,          \* process.env.HUGGINGFACE_API_KEY is set
    network,        \* backends to which a request has been issued
    hreq,           \* the handler invocation suspended at textGeneration
    hres,           \* the handler's last HTTP response
    rawText,        \* the raw model text handed to the parsing code
    parsed,         \* parsePDF's local `parsed` for it (line 106)
    hparsed         \* the handler's local `parsed` for it (line 65)

vars == <<file, parsing, result, error, password, needsPassword, pendingFile,
          runs, rejections, ignored, openaiKey, hfKey, network, hreq, hres,
          rawText, parsed, hparsed>>

compVars == <<file, parsing, result, error, password, needsPassword,
              pendingFile, runs, rejections, ignored>>
handlerVars == <<hreq, hres>>
parseVars == <<rawText, parsed, hparsed>>

----------------------------------------------------------------------------
(* Bounds *)

MaxLen == 4      \* longest model response, in lexical items
MaxRuns == 2     \* parsePDF invocations in flight at once
MaxRejections == 2   \* where the history counter of rejections saturates

----------------------------------------------------------------------------
(* Values *)

NoFile == "null"
Undefined == "undefined"
NotFoundLit == "Not Found"

JNull == [t |-> "null"]
JNumber == [t |-> "number"]

SixKeys == {"issuer", "cardLast4", "statementPeriod", "dueDate",
            "totalBalance", "minimumPayment"}
AllKeys == SixKeys \cup {"note"}

MemberTokens == {"issuer:Chase", "note:hi"}
Tokens == {"{", "}", " ", "w", "NotFound", "null", "5"} \cup MemberTokens

MemberKey(tok) == IF tok = "issuer:Chase" THEN "issuer" ELSE "note"
MemberVal(tok) == IF tok = "issuer:Chase" THEN "Chase" ELSE "hi"

Texts == UNION {[1..n -> Tokens] : n \in 0..MaxLen}

JObject(members) ==
    [t |-> "object",
     f |-> [k \in AllKeys |->
              IF \E m \in members : MemberKey(m) = k
              THEN MemberVal(CHOOSE m \in members : MemberKey(m) = k)
              ELSE Undefined]]

\* the literal of lines 113-120 and 70-77
DefaultRecord ==
    [t |-> "object",
     f |-> [k \in AllKeys |-> IF k \in SixKeys THEN NotFoundLit ELSE Undefined]]

Truthy(v) == v.t = "object" \/ v.t = "number"

----------------------------------------------------------------------------
(* Error messages *)

NoMsg == <<>>
MsgNoPassword == <<"No", "password", "given">>
MsgIncorrectPassword == <<"Incorrect", "Password">>
MsgInvalidPdf == <<"Invalid", "PDF", "structure">>
MsgNoKey == <<"OpenAI", "API", "Key", "is", "not", "configured.">>
MsgHttp == <<"OpenAI", "API", "error:", "500">>
MsgApi == <<"Your", "account", "password", "has", "expired">>
MsgSyntax == <<"Unexpected", "token", "in", "JSON">>
MsgPrompt == <<"This", "PDF", "is", "password", "protected.">>
MsgFailed == <<"Failed", "to", "parse", "PDF">>
MsgNotPdf == <<"Please", "upload", "a", "PDF", "file">>
MsgMissingText == <<"Missing", "PDF", "text">>
MsgModelOutput == <<"Failed", "to", "parse", "model", "output">>
MsgServer == <<"Server", "Error">>
MsgHfDown == <<"Service", "Unavailable">>

ToLowerCase(w) == IF w \in {"Password", "PASSWORD"} THEN "password" ELSE w

\* the test of line 128 without toLowerCase()
MentionsPasswordCaseSensitive(msg) == \E i \in DOMAIN msg : msg[i] = "password"

\* err.message?.toLowerCase()?.includes('password')
MentionsPassword(msg) == \E i \in DOMAIN msg : ToLowerCase(msg[i]) = "password"

----------------------------------------------------------------------------
(* JSON.parse and String.prototype.match(/\{[\s\S]+\}/) *)

Ok(v) == [ok |-> TRUE, value |-> v, message |-> NoMsg]
Throw(msg) == [ok |-> FALSE, value |-> JNull, message |-> msg]

StripWs(s) == SelectSeq(s, LAMBDA x : x # " ")

\* JSON.parse: whitespace between items is insignificant; a text is JSON when
\* it is one scalar or a brace pair around members only.
JSONParse(s) ==
    LET c == StripWs(s) IN
    IF c = <<"null">> THEN Ok(JNull)
    ELSE IF c = <<"5">> THEN Ok(JNumber)
    ELSE IF /\ Len(c) >= 2
            /\ c[1] = "{"
            /\ c[Len(c)] = "}"
            /\ \A i \in 2..(Len(c) - 1) : c[i] \in MemberTokens
         THEN Ok(JObject({c[i] : i \in 2..(Len(c) - 1)}))
         ELSE Throw(MsgSyntax)

RECURSIVE TrimStart(_)
TrimStart(s) == IF s # <<>> /\ Head(s) = " " THEN TrimStart(Tail(s)) ELSE s

RECURSIVE TrimEnd(_)
TrimEnd(s) ==
    IF s # <<>> /\ s[Len(s)] = " " THEN TrimEnd(SubSeq(s, 1, Len(s) - 1)) ELSE s

\* String.prototype.trim
Trim(s) == TrimEnd(TrimStart(s))

SetMin(S) == CHOOSE x \in S : \A y \in S : x <= y
SetMax(S) == CHOOSE x \in S : \A y \in S : y <= x

\* text.match(/\{[\s\S]+\}/): leftmost '{' that has a '}' at least one
\* character further on, extended greedily to the last '}'.
RegexMatch(s) ==
    LET closers(i) == {j \in (i + 2)..Len(s) : s[j] = "}"}
        starts == {i \in 1..Len(s) : s[i] = "{" /\ closers(i) # {}}
    IN  IF starts = {}
        THEN [matched |-> FALSE, s |-> <<>>]
        ELSE LET i == SetMin(starts)
             IN  [matched |-> TRUE, s |-> SubSeq(s, i, SetMax(closers(i)))]

\* lines 106-121 without the substring attempt of line 112
ParseWholeOnly(openAIResponse) ==
    LET whole == JSONParse(openAIResponse) IN
    IF whole.ok THEN whole ELSE Ok(DefaultRecord)

\* parsePDF lines 106-121: the value assigned to `parsed`, or the exception
ParseModelResponse(openAIResponse) ==
    LET whole == JSONParse(openAIResponse) IN
    IF whole.ok THEN whole
    ELSE LET jsonMatch == RegexMatch(openAIResponse) IN
         IF jsonMatch.matched THEN JSONParse(jsonMatch.s)
         ELSE Ok(DefaultRecord)

----------------------------------------------------------------------------
(* Documents and the extractor *)

Docs == {"plain.pdf", "locked.pdf", "corrupt.pdf", "blank.pdf"}
Passwords == {"", "secret", "wrong"}

DocPassword(d) == IF d = "locked.pdf" THEN "secret" ELSE ""
\* pdf.numPages; blank.pdf has no page at all
NumPages(d) == IF d = "plain.pdf" THEN 4 ELSE IF d = "blank.pdf" THEN 0 ELSE 1

\* the joined item strings of page i (lines 50-52)
PageText(d, i) ==
    IF d = "plain.pdf" THEN <<"stmt1", "stmt2", "stmt3", "stmt4">>[i]
    ELSE "lockedstmt1"

\* pdfjsLib.getDocument({data, password}).promise
GetDocument(d, pw) ==
    IF d = "corrupt.pdf" THEN Throw(MsgInvalidPdf)
    ELSE IF DocPassword(d) = "" THEN Ok(d)
    ELSE IF pw = "" THEN Throw(MsgNoPassword)
    ELSE IF pw # DocPassword(d) THEN Throw(MsgIncorrectPassword)
    ELSE Ok(d)

PageLimit == 3

Min2(a, b) == IF a <= b THEN a ELSE b

\* the page loop without the Math.min(pdf.numPages, 3) cap
RECURSIVE PageLoopNoLimit(_, _, _)
PageLoopNoLimit(d, i, out) ==
    IF i <= NumPages(d)
    THEN PageLoopNoLimit(d, i + 1, out \o <<PageText(d, i), "\n">>)
    ELSE out

RECURSIVE PageLoop(_, _, _)
PageLoop(d, i, out) ==
    IF i <= Min2(NumPages(d), PageLimit)
    THEN PageLoop(d, i + 1, out \o <<PageText(d, i), "\n">>)
    ELSE out

extractPdfText(d, pdfPassword) ==
    LET loaded == GetDocument(d, pdfPassword) IN
    IF loaded.ok THEN Ok(PageLoop(d, 1, <<>>)) ELSE loaded

----------------------------------------------------------------------------
(* The component *)

\* a parsePDF invocation: its arguments, where it is suspended, its local
\* `text`, and how often it has called the extractor and issued the fetch;
\* `latest` is history (no run was started after it)
Run(f, pw) ==
    [file |-> f, pdfPassword |-> pw, pc |-> "extract", text |-> <<>>,
     extracts |-> 1, fetches |-> 0, latest |-> TRUE]

Superseded(rs) == [i \in DOMAIN rs |-> [rs[i] EXCEPT !.latest = FALSE]]

RemoveAt(rs, i) == SubSeq(rs, 1, i - 1) \o SubSeq(rs, i + 1, Len(rs))

\* parsePDF up to its first await (lines 97-103)
parsePDF(f, pw) ==
    /\ Len(runs) < MaxRuns
    /\ parsing' = TRUE
    /\ error' = NoMsg
    /\ result' = JNull
    /\ needsPassword' = FALSE
    /\ runs' = Append(Superseded(runs), Run(f, pw))
    /\ UNCHANGED pendingFile

\* the catch and finally blocks of parsePDF (lines 127-137)
Catch(f, msg) ==
    /\ IF MentionsPassword(msg)
       THEN /\ needsPassword' = TRUE
            /\ pendingFile' = f
            /\ error' = MsgPrompt
       ELSE /\ error' = (IF msg = NoMsg THEN MsgFailed ELSE msg)
            /\ UNCHANGED <<needsPassword, pendingFile>>
    /\ parsing' = FALSE
    /\ UNCHANGED <<result, password>>

\* lines 123-126, then finally
Publish(value) ==
    /\ result' = value
    /\ needsPassword' = FALSE
    /\ pendingFile' = NoFile
    /\ password' = ""
    /\ parsing' = FALSE
    /\ UNCHANGED error

\* handleDrop with a PDF (lines 152-160)
handleDrop(d) ==
    /\ file' = d
    /\ parsePDF(d, "")
    /\ rejections' = 0
    /\ UNCHANGED <<password, openaiKey, hfKey, network>>
    /\ UNCHANGED ignored
    /\ UNCHANGED <<handlerVars, parseVars>>

\* handleDrop with a file that is not a PDF (lines 161-163)
handleDropOther ==
    /\ error' = MsgNotPdf
    /\ UNCHANGED <<file, parsing, result, password, needsPassword,
                   pendingFile, runs, rejections, openaiKey, hfKey,
                   network>>
    /\ UNCHANGED ignored
    /\ UNCHANGED <<handlerVars, parseVars>>

\* handleFileChange (lines 167-174); the input is disabled while parsing
handleFileChange(d) ==
    /\ ~parsing
    /\ file' = d
    /\ password' = ""
    /\ parsePDF(d, "")
    /\ rejections' = 0
    /\ UNCHANGED <<openaiKey, hfKey, network>>
    /\ UNCHANGED ignored
    /\ UNCHANGED <<handlerVars, parseVars>>

\* the password input's onChange (line 332); rendered when needsPassword
setPassword(pw) ==
    /\ needsPassword
    /\ pw # password
    /\ password' = pw
    /\ UNCHANGED <<file, parsing, result, error, needsPassword, pendingFile,
                   runs, rejections, openaiKey, hfKey, network>>
    /\ UNCHANGED ignored
    /\ UNCHANGED <<handlerVars, parseVars>>

\* handlePasswordSubmit without the `pendingFile && password` test
handlePasswordSubmitUnchecked ==
    /\ needsPassword
    /\ parsePDF(pendingFile, password)
    /\ UNCHANGED ignored

\* handlePasswordSubmit (lines 176-181), the onSubmit of the form that is
\* rendered when needsPassword (line 311); the disabled attribute of line 348
\* is on the button, not on the form, so a submit event can arrive with an
\* empty password
handlePasswordSubmit ==
    /\ needsPassword
    /\ IF pendingFile # NoFile /\ password # ""
       THEN parsePDF(pendingFile, password) /\ UNCHANGED ignored
       ELSE /\ UNCHANGED <<parsing, error, result, needsPassword, runs,
                           pendingFile>>
            /\ ignored' = TRUE
    /\ UNCHANGED <<file, password, rejections, openaiKey, hfKey, network>>
    /\ UNCHANGED <<handlerVars, parseVars>>

\* extractPdfText settles; on success callOpenAI runs up to its fetch
\* (lines 103-104, 59-85)
extractDone(i) ==
    /\ i \in DOMAIN runs
    /\ runs[i].pc = "extract"
    /\ LET r == runs[i]
           text == extractPdfText(r.file, r.pdfPassword)
       IN  IF ~text.ok
           THEN /\ Catch(r.file, text.message)
                /\ runs' = RemoveAt(runs, i)
                /\ rejections' =
                       IF r.pdfPassword # "" /\ MentionsPassword(text.message)
                       THEN Min2(rejections + 1, MaxRejections)
                       ELSE rejections
                /\ UNCHANGED network
           ELSE IF ~openaiKey
           THEN /\ Catch(r.file, MsgNoKey)
                /\ runs' = RemoveAt(runs, i)
                /\ UNCHANGED <<network, rejections>>
           ELSE /\ network' = network \cup {"openai"}
                /\ runs' = [runs EXCEPT ![i].pc = "model",
                                        ![i].text = text.value,
                                        ![i].fetches = @ + 1]
                /\ UNCHANGED <<parsing, result, error, password,
                               needsPassword, pendingFile, rejections>>
    /\ UNCHANGED <<file, openaiKey, hfKey>>
    /\ UNCHANGED ignored
    /\ UNCHANGED <<handlerVars, parseVars>>

\* what `await callOpenAI(text)` followed by lines 106-121 can produce:
\* a rejection (lines 87-90) or the parse of the returned content
ModelErrors == {MsgHttp, MsgApi}
ModelOutcomes ==
    {Throw(m) : m \in ModelErrors} \cup {ParseModelResponse(t) : t \in Texts}

\* modelDone with a retry loop around the fetch: a failed call is issued again
modelDoneRetrying(i) ==
    /\ i \in DOMAIN runs
    /\ runs[i].pc = "model"
    /\ \E o \in ModelOutcomes :
         IF o.ok
         THEN /\ Publish(o.value)
              /\ rejections' = 0
              /\ runs' = RemoveAt(runs, i)
         ELSE /\ runs' = [runs EXCEPT ![i].fetches = @ + 1]
              /\ UNCHANGED <<parsing, result, error, password, needsPassword,
                             pendingFile, rejections>>
    /\ UNCHANGED <<file, openaiKey, hfKey, network>>
    /\ UNCHANGED ignored
    /\ UNCHANGED <<handlerVars, parseVars>>

\* the fetch settles; parse, publish or catch, finally (lines 104-137)
modelDone(i) ==
    /\ i \in DOMAIN runs
    /\ runs[i].pc = "model"
    /\ \E o \in ModelOutcomes :
         IF o.ok
         THEN Publish(o.value) /\ rejections' = 0
         ELSE Catch(runs[i].file, o.message) /\ UNCHANGED rejections
    /\ runs' = RemoveAt(runs, i)
    /\ UNCHANGED <<file, openaiKey, hfKey, network>>
    /\ UNCHANGED ignored
    /\ UNCHANGED <<handlerVars, parseVars>>

----------------------------------------------------------------------------
(* The API handler *)

NoResponse == [status |-> 0, body |-> JNull]
ErrorBody(msg) == [t |-> "error", message |-> msg]

Methods == {"GET", "POST"}
PdfTexts == {<<>>, <<"stmt", "\n">>}

\* handler lines 65-82: the value assigned to `parsed`, or the exception
HandlerParse(text) ==
    LET whole == JSONParse(Trim(text)) IN
    IF whole.ok THEN whole
    ELSE IF Trim(text) = <<"NotFound">> \/ Trim(text) = <<>>
         THEN Ok(DefaultRecord)
         ELSE LET jsonMatch == RegexMatch(text) IN
              IF jsonMatch.matched THEN JSONParse(jsonMatch.s)
              ELSE Ok(JNull)

\* lines 64-88: the response for generated text `text`
HandlerRespond(text) ==
    LET p == HandlerParse(text) IN
    IF ~p.ok
    THEN [status |-> 500, body |-> ErrorBody(p.message)]
    ELSE IF ~Truthy(p.value)
    THEN [status |-> 500, body |-> ErrorBody(MsgModelOutput)]
    ELSE [status |-> 200, body |-> p.value]

\* what `await client.textGeneration(...)` can settle to: generated text,
\* or a rejection whose message may be empty
HfErrors == {MsgHfDown, NoMsg}
Generated(t) == [ok |-> TRUE, text |-> t, message |-> NoMsg]
Rejected(m) == [ok |-> FALSE, text |-> <<>>, message |-> m]

\* handler up to its await (lines 24-59); the reply travels with the request
handlerBegin(method, pdfText) ==
    /\ hreq = <<>>
    /\ IF method # "POST"
       THEN /\ hres' = [status |-> 405, body |-> JNull]
            /\ UNCHANGED <<hreq, network>>
       ELSE IF pdfText = <<>>
       THEN /\ hres' = [status |-> 400, body |-> ErrorBody(MsgMissingText)]
            /\ UNCHANGED <<hreq, network>>
       ELSE /\ \E reply \in {Generated(t) : t \in Texts}
                            \cup {Rejected(m) : m \in HfErrors} :
                 hreq' = <<[pdfText |-> pdfText, reply |-> reply]>>
            /\ network' = network \cup {"huggingface"}
            /\ UNCHANGED hres
    /\ UNCHANGED <<openaiKey, hfKey>>
    /\ UNCHANGED <<compVars, parseVars>>

\* textGeneration settles (lines 61-91)
handlerDone ==
    /\ hreq # <<>>
    /\ hreq' = <<>>
    /\ LET reply == hreq[1].reply IN
       IF reply.ok
       THEN hres' = HandlerRespond(reply.text)
       ELSE hres' = [status |-> 500,
                     body |-> ErrorBody(IF reply.message = NoMsg
                                        THEN MsgServer ELSE reply.message)]
    /\ UNCHANGED <<openaiKey, hfKey, network>>
    /\ UNCHANGED <<compVars, parseVars>>

----------------------------------------------------------------------------
(* The two parsers on their own *)

\* no parse has run yet
NotParsed == [ok |-> FALSE, value |-> JNull, message |-> NoMsg]

\* parsePDF lines 106-121 applied to the model's text
parseResponse ==
    /\ parsed = NotParsed
    /\ parsed' = ParseModelResponse(rawText)
    /\ UNCHANGED <<rawText, hparsed, openaiKey, hfKey, network>>
    /\ UNCHANGED <<compVars, handlerVars>>

\* handler lines 65-82 applied to the model's text
handlerParse ==
    /\ hparsed = NotParsed
    /\ hparsed' = HandlerParse(rawText)
    /\ UNCHANGED <<rawText, parsed, openaiKey, hfKey, network>>
    /\ UNCHANGED <<compVars, handlerVars>>

----------------------------------------------------------------------------
(* Specifications *)

\* the component after its first render, the handler before any request
InitProgram ==
    /\ file = NoFile
    /\ parsing = FALSE
    /\ result = JNull
    /\ error = NoMsg
    /\ password = ""
    /\ needsPassword = FALSE
    /\ pendingFile = NoFile
    /\ runs = <<>>
    /\ rejections = 0
    /\ ignored = FALSE
    /\ openaiKey \in BOOLEAN
    /\ hfKey \in BOOLEAN
    /\ network = {}
    /\ hreq = <<>>
    /\ hres = NoResponse

Init ==
    /\ InitProgram
    /\ rawText = <<>>
    /\ parsed = NotParsed
    /\ hparsed = NotParsed

Next ==
    \/ \E d \in Docs : handleDrop(d)
    \/ handleDropOther
    \/ \E d \in Docs : handleFileChange(d)
    \/ \E pw \in Passwords : setPassword(pw)
    \/ handlePasswordSubmit
    \/ \E i \in 1..MaxRuns : extractDone(i)
    \/ \E i \in 1..MaxRuns : modelDone(i)

Spec == Init /\ [][Next]_vars

NextHandler ==
    \/ \E m \in Methods, p \in PdfTexts : handlerBegin(m, p)
    \/ handlerDone

SpecHandler == Init /\ [][NextHandler]_vars

\* every text the model can return, before either parser has seen it
InitParse ==
    /\ InitProgram
    /\ rawText \in Texts
    /\ parsed = NotParsed
    /\ hparsed = NotParsed

NextParse ==
    \/ parseResponse
    \/ handlerParse

SpecParse == InitParse /\ [][NextParse]_vars

----------------------------------------------------------------------------
(* Claims *)

\* a parsePDF invocation settles in this step
Settles(i) == i \in DOMAIN runs /\ runs' = RemoveAt(runs, i)

\* a submit (file selection or drop) starts a run in this step
SubmitBegins ==
    /\ Len(runs') = Len(runs) + 1
    /\ runs'[Len(runs')].pdfPassword = ""

IsRecord(v) == v.t = "object"

\* C1: whatever text the model returns, parsing does not fail: the pipeline
\* never ends with the JSON syntax error as its failure.
C1_ParsingNeverFails == error # MsgSyntax

\* C2: a published object has exactly the six keys: each of the six is
\* present (missing ones filled in) and no other key is.
C2_ExactlySixKeys ==
    IsRecord(result) =>
        /\ \A k \in SixKeys : result.f[k] # Undefined
        /\ \A k \in AllKeys \ SixKeys : result.f[k] = Undefined

\* C3: once the last run has settled without an error, the published result
\* is a record: a response that is JSON but not an object yields the default
\* record, never null and never a non-record.
C3_SucceededHasRecord ==
    (runs = <<>> /\ file # NoFile /\ error = NoMsg /\ ~needsPassword)
        => IsRecord(result)

\* C4: once the most recently started run has settled, a run started before
\* it that settles late leaves result, error, the awaiting-credential flag
\* and the retained document as they are.
C4_LateRunIgnored ==
    [][(/\ runs # <<>>
        /\ \A j \in DOMAIN runs : ~runs[j].latest
        /\ \E i \in DOMAIN runs : Settles(i))
       => UNCHANGED <<result, error, needsPassword, pendingFile>>]_vars

\* C5: when the model call of a retry with the correct credential returns,
\* and no other run overlaps it, the controller is Succeeded: a record is
\* published, no credential is awaited, nothing is in progress.
C5_RetrySucceeds ==
    [][(/\ Len(runs) = 1
        /\ runs[1].pc = "model"
        /\ runs[1].pdfPassword # ""
        /\ runs[1].pdfPassword = DocPassword(runs[1].file)
        /\ Settles(1)
        /\ error' \notin ModelErrors
        /\ ~needsPassword')
       => (IsRecord(result') /\ ~parsing')]_vars

\* C6: a published result is never shown together with the credential prompt
\* nor together with a failure message.
C6_OneStateAtATime ==
    /\ ~(result # JNull /\ needsPassword)
    /\ ~(result # JNull /\ error # NoMsg)

\* C7: the controller starts awaiting a credential only in a step in which
\* the extractor rejects a run with a credential error.
C7_PromptOnlyOnCredentialError ==
    [][(needsPassword' /\ ~needsPassword)
       => \E i \in DOMAIN runs :
            /\ runs[i].pc = "extract"
            /\ Settles(i)
            /\ GetDocument(runs[i].file, runs[i].pdfPassword).message
                 \in {MsgNoPassword, MsgIncorrectPassword}]_vars

\* C8: no request goes to a backend whose credential is not configured.
C8_NoKeyNoRequest ==
    /\ ~openaiKey => "openai" \notin network
    /\ ~hfKey => "huggingface" \notin network

\* C9: when a submit begins, nothing of the previous document remains: no
\* result, no error text, no retained document, no typed credential.
C9_SubmitStartsFromScratch ==
    [][SubmitBegins
       => /\ result' = JNull
          /\ error' = NoMsg
          /\ ~needsPassword'
          /\ pendingFile' = NoFile
          /\ password' = ""]_vars

\* C10: whenever the extractor rejects a retry's credential, the controller
\* awaits a credential again with that run's document retained, nothing in
\* progress, the credential prompt (not a failure) shown and the typed
\* credential untouched, so that retry stays available.
C10_RejectedRetryAwaitsAgain ==
    [][\A i \in DOMAIN runs :
         (/\ runs[i].pc = "extract"
          /\ runs[i].pdfPassword # ""
          /\ GetDocument(runs[i].file, runs[i].pdfPassword)
                = Throw(MsgIncorrectPassword)
          /\ Settles(i))
         => /\ needsPassword'
            /\ pendingFile' = runs[i].file
            /\ error' = MsgPrompt
            /\ ~parsing'
            /\ password' = password]_vars

\* two retries in a row were rejected and the controller awaits a credential
\* for the same retained document
C10_Witness ==
    /\ rejections >= 2
    /\ needsPassword
    /\ pendingFile = "locked.pdf"
    /\ ~parsing
    /\ runs = <<>>

\* C11: a request whose extracted text is empty is still forwarded to the
\* model: the handler does not answer it with an error of its own.
C11_EmptyTextForwarded ==
    [][handlerBegin("POST", <<>>)
       => (hreq' # <<>> /\ hres'.status \notin {400, 500})]_vars

\* the substring from the first '{' to the last '}' of a text, inclusive
HasBraceSpan(t) ==
    \E i, j \in DOMAIN t : t[i] = "{" /\ t[j] = "}" /\ i < j
BraceSpan(t) ==
    SubSeq(t, SetMin({i \in DOMAIN t : t[i] = "{"}),
              SetMax({j \in DOMAIN t : t[j] = "}"}))

\* the text is empty, is the bare Not Found, or parses neither as a whole nor
\* from its first '{' to its last '}'
Unparseable(t) ==
    \/ Trim(t) = <<>>
    \/ Trim(t) = <<"NotFound">>
    \/ /\ ~JSONParse(t).ok
       /\ HasBraceSpan(t) => ~JSONParse(BraceSpan(t)).ok

\* C12: for a text that is empty, is Not Found or cannot be parsed either way,
\* each parser yields exactly the record of six "Not Found".
C12_UnparseableGivesDefault ==
    Unparseable(rawText) =>
        /\ parsed # NotParsed => parsed = Ok(DefaultRecord)
        /\ hparsed # NotParsed => hparsed = Ok(DefaultRecord)

\* the first '{' and the last '}' have at least one item between them
HasWideSpan(t) ==
    \E i, j \in DOMAIN t : t[i] = "{" /\ t[j] = "}" /\ i + 2 <= j

\* what a parser must have produced for text t when the whole text is tried
\* first and `spanned` says whether the brace span is tried after it
FollowsPriority(p, t, spanned) ==
    IF JSONParse(t).ok
    THEN p = JSONParse(t)
    ELSE (spanned /\ JSONParse(BraceSpan(t)).ok) => p = JSONParse(BraceSpan(t))

\* C13 as stated: the whole text first; failing that, the substring from the
\* first '{' to the last '}', whose value is then the basis.
C13_FirstToLastSpan ==
    /\ parsed # NotParsed
         => FollowsPriority(parsed, rawText, HasBraceSpan(rawText))
    /\ hparsed # NotParsed
         => FollowsPriority(hparsed, rawText, HasBraceSpan(rawText))

\* C13 amended: the same, for spans with at least one character between the
\* first '{' and the last '}'.
C13_WideSpanPriority ==
    /\ parsed # NotParsed
         => FollowsPriority(parsed, rawText, HasWideSpan(rawText))
    /\ hparsed # NotParsed
         => FollowsPriority(hparsed, rawText, HasWideSpan(rawText))

\* both parsers have recovered an object embedded in prose
C13_Witness ==
    /\ ~JSONParse(rawText).ok
    /\ rawText # <<>>
    /\ rawText[1] = "w"
    /\ HasWideSpan(rawText)
    /\ parsed = Ok(JObject({"issuer:Chase"}))
    /\ hparsed = parsed

\* the extractor rejects run i with a credential error in this step
CredentialRejected(i) ==
    /\ i \in DOMAIN runs
    /\ runs[i].pc = "extract"
    /\ GetDocument(runs[i].file, runs[i].pdfPassword).message
         \in {MsgNoPassword, MsgIncorrectPassword}
    /\ Settles(i)

\* C14: the reason shown with the credential prompt differs by cause: after a
\* submit without credential it is the "protected" message, after a rejected
\* retry it is another message.
C14_ReasonDiffersByCause ==
    [][\A i \in DOMAIN runs :
         CredentialRejected(i)
         => IF runs[i].pdfPassword = ""
            THEN error' = MsgPrompt
            ELSE error' # MsgPrompt]_vars

\* C15: at most one parsePDF run is outstanding at any time.
C15_OneRunInFlight == Len(runs) <= 1

FirstPages(d) ==
    LET m == IF NumPages(d) < 3 THEN NumPages(d) ELSE 3 IN
    [k \in 1..(2 * m) |-> IF k % 2 = 1 THEN PageText(d, (k + 1) \div 2) ELSE "\n"]

\* C17: the text a run hands to the model client is the texts of pages
\* 1..min(n,3) in ascending order, each followed by a page break; no later
\* page occurs in it, and a 0-page document gives the empty text.
C17_FirstThreePagesInOrder ==
    \A i \in DOMAIN runs :
        runs[i].pc = "model"
            => /\ runs[i].text = FirstPages(runs[i].file)
               /\ Len(runs[i].text) <= 6
               /\ NumPages(runs[i].file) = 0 => runs[i].text = <<>>

\* the four-page document was extracted: three pages, three page breaks
C17_Witness ==
    \E i \in DOMAIN runs :
        /\ runs[i].file = "plain.pdf"
        /\ runs[i].pc = "model"
        /\ runs[i].text = <<"stmt1", "\n", "stmt2", "\n", "stmt3", "\n">>

\* C18: the parsing flag is true exactly when some run started by a submit
\* or a password submission has not completed.
C18_ParsingIffRunOutstanding == parsing <=> runs # <<>>

\* C19: while the password prompt is shown, the retained pending document
\* is the document shown as the current file.
C19_PendingIsCurrentFile == needsPassword => pendingFile = file

\* C20: a password submission with an empty password or without a pending
\* document starts no run and leaves result, error, parsing, needsPassword
\* and pendingFile unchanged.
C20_EmptySubmitIsNoOp ==
    [][(handlePasswordSubmit /\ (password = "" \/ pendingFile = NoFile))
          => UNCHANGED <<result, error, parsing, needsPassword, pendingFile, runs>>]_vars

\* the form was submitted with an empty password and nothing was started
C20_Witness ==
    /\ ignored
    /\ needsPassword
    /\ password = ""
    /\ pendingFile # NoFile
    /\ runs = <<>>
    /\ ~parsing

====
